---- MODULE Spec2Model ----
(***************************************************************************)
(* Model of the three simulation engines of ai_chessboard_economy:         *)
(*   ai_economy.py   fixed automation rate, homogeneous wages,             *)
(*                   automation by index test  i < jobs_to_automate        *)
(*   eco.py          stochastic rate, heterogeneous wages, automation of   *)
(*                   the first jobs_to_automate employed indices           *)
(*   python/chess.py stochastic rate, heterogeneous wages, automation of   *)
(*                   a shuffled selection, per-worker history              *)
(* Python floats are modelled as exact rationals <<numerator, denominator>>*)
(* in lowest terms: every quantity of the engines is a sum, product or     *)
(* quotient of the constants and the wages.                                *)
(***************************************************************************)
EXTENDS Integers, Sequences, FiniteSets, TLC

VARIABLES variant, workers, num_employed, material_gain, revenue, tax_revenue,
          total_consumption, initial_consumption, data, history, steps, call

vars == <<variant, workers, num_employed, material_gain, revenue, tax_revenue,
          total_consumption, initial_consumption, data, history, steps, call>>

-----------------------------------------------------------------------------
(* Bounds of the model *)

\* number of step() calls the driver loop makes (for _ in range(NUM_STEPS))
MaxSteps == 3
\* population sizes of the stochastic engines: 1..MaxWorkers
MaxWorkers == 3
\* population sizes of the fixed-rate engine: 1..MaxFixedPop and INITIAL_JOBS
MaxFixedPop == 22

-----------------------------------------------------------------------------
(* Exact rational arithmetic standing for the float arithmetic *)

Abs(x) == IF x < 0 THEN -x ELSE x

RECURSIVE GCD(_, _)
GCD(a, b) == IF b = 0 THEN a ELSE GCD(b, a % b)

Rat(n, d) ==
    LET s == IF d < 0 THEN -1 ELSE 1
        g == GCD(Abs(n), Abs(d))
    IN  <<(s * n) \div g, (s * d) \div g>>

FromInt(n) == <<n, 1>>
Zero == FromInt(0)
One == FromInt(1)
Half == Rat(1, 2)

RAdd(x, y) == Rat(x[1] * y[2] + y[1] * x[2], x[2] * y[2])
RSub(x, y) == Rat(x[1] * y[2] - y[1] * x[2], x[2] * y[2])
RMul(x, y) == Rat(x[1] * y[1], x[2] * y[2])
RDiv(x, y) == Rat(x[1] * y[2], x[2] * y[1])
RLe(x, y) == x[1] * y[2] <= y[1] * x[2]
RLt(x, y) == x[1] * y[2] < y[1] * x[2]
RMax(x, y) == IF RLe(x, y) THEN y ELSE x

\* int(x): truncation toward zero
Trunc(x) == IF x[1] >= 0 THEN x[1] \div x[2] ELSE -((-x[1]) \div x[2])

\* round(x) for x >= 0: to the nearest integer, halves upward
RoundNearest(x) == (2 * x[1] + x[2]) \div (2 * x[2])

Min(a, b) == IF a <= b THEN a ELSE b

-----------------------------------------------------------------------------
(* Program constants *)

ALPHA == Rat(5, 100)
ALPHA_MEAN == Rat(5, 100)
BETA == Rat(8, 10)
GAMMA == Rat(7, 10)
TAU == Rat(3, 10)
EPSILON == Rat(5, 10)
INITIAL_JOBS == 1000
INITIAL_WAGE == 100
AI_PROFIT_PER_JOB == 50
NUM_FIRMS == 5
MIN_WAGE == 10

\* the engines that keep num_employed and the five data series
Aggregate == {"ai_economy", "eco"}

\* a field the engine of this variant does not have
Absent == "absent"

\* Outcomes of np.random.normal(ALPHA_MEAN, ALPHA_STD): a real of either sign.
\* The values are spread so that the populations of the model see 0, some and
\* more than num_employed jobs to automate.
AlphaSamples == {Rat(-1, 20), ALPHA_MEAN, Rat(1, 2), Rat(3, 2)}

\* Outcomes of np.random.normal(INITIAL_WAGE_MEAN, INITIAL_WAGE_STD), per worker
WageSamples == {5, 100}

\* np.clip(wages, 10, None)
ClipWage(w) == IF w < MIN_WAGE THEN MIN_WAGE ELSE w

FixedPopSizes == (1 .. MaxFixedPop) \cup {INITIAL_JOBS}

-----------------------------------------------------------------------------
(* Worker *)

Consumption(wage, employed) ==
    IF employed THEN RMul(FromInt(wage), BETA) ELSE Zero

WorkerInit(wage) ==
    [employed |-> TRUE, wage |-> wage, consumption |-> Consumption(wage, TRUE)]

\* faulty variant: the employment test is dropped
WorkerUpdate_ignoreEmployment(w) ==
    [w EXCEPT !.consumption = Consumption(w.wage, TRUE)]

WorkerUpdate(w) ==
    [w EXCEPT !.consumption = Consumption(w.wage, w.employed)]

UpdateWorkers(ws) == [i \in 1 .. Len(ws) |-> WorkerUpdate(ws[i])]

\* Sums are taken by halves: exact addition is associative, and the depth of
\* the evaluation stays logarithmic in the population.
RECURSIVE SumConsumptionIn(_, _, _)
SumConsumptionIn(ws, lo, hi) ==
    IF lo > hi THEN Zero
    ELSE IF lo = hi THEN ws[lo].consumption
    ELSE LET mid == (lo + hi) \div 2
         IN  RAdd(SumConsumptionIn(ws, lo, mid), SumConsumptionIn(ws, mid + 1, hi))

\* sum(w.consumption for w in self.workers)
TotalConsumption(ws) == SumConsumptionIn(ws, 1, Len(ws))

\* faulty variant: the sum is not retaken, last step's figure (with its
\* stimulus) is used
PreStimulusConsumption_stale(ws) == total_consumption

\* step(): self.total_consumption = sum(w.consumption for w in self.workers)
PreStimulusConsumption(ws) == TotalConsumption(ws)

RECURSIVE SumWagesIn(_, _, _)
SumWagesIn(ws, lo, hi) ==
    IF lo > hi THEN 0
    ELSE IF lo = hi THEN (IF ws[lo].employed THEN ws[lo].wage ELSE 0)
    ELSE LET mid == (lo + hi) \div 2
         IN  SumWagesIn(ws, lo, mid) + SumWagesIn(ws, mid + 1, hi)

\* sum(w.wage for w in workers if w.employed)
EmployedWages(ws) == SumWagesIn(ws, 1, Len(ws))

EmployedIndices(ws) == {i \in 1 .. Len(ws) : ws[i].employed}

\* faulty variant: sum(1 for w in self.workers), the filter is dropped
RecountEmployed_noFilter(ws) == Len(ws)

\* sum(1 for w in self.workers if w.employed)
RecountEmployed(ws) == Cardinality(EmployedIndices(ws))

-----------------------------------------------------------------------------
(* AIFirm *)

\* faulty variant: round() in place of int()
JobsToAutomate_round(alpha, n) == RoundNearest(RMul(alpha, FromInt(n)))

\* int(alpha * num_employed)
JobsToAutomate(alpha, n) == Trunc(RMul(alpha, FromInt(n)))

RawProfit(jobs) == jobs * AI_PROFIT_PER_JOB

Ratio(total, initial) ==
    IF RLt(Zero, initial) THEN RDiv(total, initial) ELSE Zero

\* raw_profit * max(0, 1 - EPSILON * (1 - ratio))
AdjustedProfit(raw, ratio) ==
    RMul(FromInt(raw),
         RMax(Zero, RSub(One, RMul(EPSILON, RSub(One, ratio)))))

\* faulty variant: = in place of +=
Accumulate_assign(gain, profit) == profit

\* self.material_gain += adjusted profit
Accumulate(gain, profit) == RAdd(gain, profit)

\* max(0, np.random.normal(ALPHA_MEAN, ALPHA_STD))
ClampAlpha(sample) == RMax(Zero, sample)

\* AIFirm.update: the new material_gain and the returned jobs_to_automate
AIFirmUpdate(alpha, n, total, initial) ==
    LET jobs == JobsToAutomate(alpha, n)
    IN  [jobs_to_automate |-> jobs,
         material_gain |->
             Accumulate(material_gain,
                        AdjustedProfit(RawProfit(jobs), Ratio(total, initial)))]

-----------------------------------------------------------------------------
(* NonAIFirm and Government *)

NonAIFirmUpdate(total) == RMul(GAMMA, total)

RECURSIVE SumSeq(_, _)
SumSeq(s, k) == IF k = 0 THEN Zero ELSE RAdd(SumSeq(s, k - 1), s[k])

\* sum(f.revenue for f in non_ai_firms)
FirmRevenue(revs) == SumSeq(revs, Len(revs))

\* self.tax_revenue = TAU * (wages + firm_revenue)
GovernmentUpdate(wages, firm_revenue) ==
    RMul(TAU, RAdd(FromInt(wages), firm_revenue))

\* faulty variant: the whole tax is returned as stimulus
Stimulus_full(tax) == tax

\* return 0.5 * self.tax_revenue
Stimulus(tax) == RMul(Half, tax)

-----------------------------------------------------------------------------
(* Worker selection *)

Fire(w) == [w EXCEPT !.employed = FALSE]

\* faulty variant: i <= jobs_to_automate
AutomateFirstIndices_offByOne(ws, jobs) ==
    [i \in 1 .. Len(ws) |->
        IF (i - 1) <= jobs /\ ws[i].employed THEN Fire(ws[i]) ELSE ws[i]]

\* faulty variant: worker.employed = not (i < jobs_to_automate) for every worker
AutomateFirstIndices_overwrite(ws, jobs) ==
    [i \in 1 .. Len(ws) |-> [ws[i] EXCEPT !.employed = ~((i - 1) < jobs)]]

\* ai_economy.py: for i, worker in enumerate(workers):
\*                    if i < jobs_to_automate and worker.employed: ...
AutomateFirstIndices(ws, jobs) ==
    [i \in 1 .. Len(ws) |->
        IF (i - 1) < jobs /\ ws[i].employed THEN Fire(ws[i]) ELSE ws[i]]

\* employed_indices[:jobs_to_automate] for the ascending list of employed indices
FirstEmployed(ws, jobs) ==
    {i \in EmployedIndices(ws) :
        Cardinality({j \in EmployedIndices(ws) : j < i}) < jobs}

FireSet(ws, T) ==
    [i \in 1 .. Len(ws) |-> IF i \in T THEN Fire(ws[i]) ELSE ws[i]]

\* eco.py: the first jobs_to_automate employed workers
AutomateFirstEmployed(ws, jobs) == FireSet(ws, FirstEmployed(ws, jobs))

\* chess.py: np.random.shuffle(employed_indices); employed_indices[:jobs]
\* is any selection of min(jobs, len(employed_indices)) employed indices
ShuffledSelections(ws, jobs) ==
    {T \in SUBSET EmployedIndices(ws) :
        Cardinality(T) = Min(jobs, Cardinality(EmployedIndices(ws)))}

-----------------------------------------------------------------------------
(* History *)

\* faulty variant: list.insert(0, s)
AppendSnapshot_prepend(h, s) == <<s>> \o h

\* list.append
AppendSnapshot(h, s) == Append(h, s)

Series == {"Employment", "Consumption", "Tax Revenue", "AI Profit",
           "Non-AI Revenue"}

InitData(n, total) ==
    [k \in Series |->
        IF k = "Employment" THEN <<n>>
        ELSE IF k = "Consumption" THEN <<total>>
        ELSE <<Zero>>]

RecordData(d, n, total, tax, gain, revs) ==
    [k \in Series |->
        AppendSnapshot(d[k],
            IF k = "Employment" THEN n
            ELSE IF k = "Consumption" THEN total
            ELSE IF k = "Tax Revenue" THEN tax
            ELSE IF k = "AI Profit" THEN gain
            ELSE FirmRevenue(revs))]

Snapshot(ws, gain, tax, total) ==
    [employment |-> [i \in 1 .. Len(ws) |-> ws[i].employed],
     wages |-> [i \in 1 .. Len(ws) |-> IF ws[i].employed THEN ws[i].wage ELSE 0],
     ai_profit |-> gain,
     tax_revenue |-> tax,
     consumption |-> total]

-----------------------------------------------------------------------------
(* Economy *)

NoCall == [num_employed |-> 0, total_consumption |-> Zero, jobs_to_automate |-> 0]

InitCommon ==
    /\ material_gain = Zero
    /\ revenue = [f \in 1 .. NUM_FIRMS |-> Zero]
    /\ tax_revenue = Zero
    /\ steps = 0
    /\ call = NoCall

InitAiEconomy ==
    /\ variant = "ai_economy"
    /\ \E n \in FixedPopSizes :
        /\ num_employed = n
        /\ workers = [i \in 1 .. n |-> WorkerInit(INITIAL_WAGE)]
        /\ total_consumption = RMul(FromInt(n * INITIAL_WAGE), BETA)
    /\ initial_consumption = total_consumption
    /\ data = InitData(num_employed, total_consumption)
    /\ history = Absent
    /\ InitCommon

InitEco ==
    /\ variant = "eco"
    /\ \E n \in 1 .. MaxWorkers :
        \E wages \in [1 .. n -> WageSamples] :
            /\ workers = [i \in 1 .. n |-> WorkerInit(ClipWage(wages[i]))]
            /\ num_employed = n
    /\ total_consumption = TotalConsumption(workers)
    /\ initial_consumption = total_consumption
    /\ data = InitData(num_employed, total_consumption)
    /\ history = Absent
    /\ InitCommon

InitChess ==
    /\ variant = "chess"
    /\ \E n \in 1 .. MaxWorkers :
        \E wages \in [1 .. n -> WageSamples] :
            workers = [i \in 1 .. n |-> WorkerInit(ClipWage(wages[i]))]
    /\ num_employed = Absent
    /\ initial_consumption = TotalConsumption(workers)
    /\ total_consumption = initial_consumption
    /\ data = Absent
    /\ history = <<>>
    /\ InitCommon

\* The state: ai_economy.py and eco.py keep num_employed and data, chess.py keeps
\* history; steps counts the step() calls of the driver loop, call holds the
\* arguments and the result of the latest AIFirm.update call.
IsRat(x) == x[1] \in Int /\ x[2] \in Nat \ {0}

TypeOK ==
    /\ variant \in {"ai_economy", "eco", "chess"}
    /\ \A i \in DOMAIN workers :
          /\ workers[i].employed \in BOOLEAN
          /\ workers[i].wage \in Nat /\ workers[i].wage >= MIN_WAGE
          /\ IsRat(workers[i].consumption)
    /\ IF variant \in Aggregate
       THEN num_employed \in 0 .. Len(workers) /\ DOMAIN data = Series
            /\ history = Absent
       ELSE num_employed = Absent /\ data = Absent
            /\ \A k \in DOMAIN history :
                  /\ DOMAIN history[k].employment = DOMAIN workers
                  /\ DOMAIN history[k].wages = DOMAIN workers
                  /\ IsRat(history[k].ai_profit)
                  /\ IsRat(history[k].tax_revenue)
                  /\ IsRat(history[k].consumption)
    /\ IsRat(material_gain) /\ IsRat(tax_revenue)
    /\ IsRat(total_consumption) /\ IsRat(initial_consumption)
    /\ DOMAIN revenue = 1 .. NUM_FIRMS
    /\ \A f \in DOMAIN revenue : IsRat(revenue[f])
    /\ steps \in 0 .. MaxSteps
    /\ call.num_employed \in Nat /\ call.jobs_to_automate \in Nat
    /\ IsRat(call.total_consumption)

Init == InitAiEconomy \/ InitEco \/ InitChess

\* The part of step() after the automation: firms, government, stimulus.
\* ws is the population after automation, S the pre-stimulus consumption,
\* upd the result of AIFirm.update, wages the wage bill the government taxes.
Settle(ws, S, upd, wages) ==
    LET revs == [f \in 1 .. NUM_FIRMS |-> NonAIFirmUpdate(S)]
        tax == GovernmentUpdate(wages, FirmRevenue(revs))
        total == RAdd(S, Stimulus(tax))
    IN  /\ workers' = ws
        /\ material_gain' = upd.material_gain
        /\ revenue' = revs
        /\ tax_revenue' = tax
        /\ total_consumption' = total
        /\ steps' = steps + 1
        /\ UNCHANGED <<variant, initial_consumption>>

StepAiEconomy ==
    /\ variant = "ai_economy"
    /\ steps < MaxSteps
    /\ LET ws1 == UpdateWorkers(workers)
           S == PreStimulusConsumption(ws1)
           upd == AIFirmUpdate(ALPHA, num_employed, S, initial_consumption)
           ws2 == AutomateFirstIndices(ws1, upd.jobs_to_automate)
           n == RecountEmployed(ws2)
       IN  /\ Settle(ws2, S, upd, n * INITIAL_WAGE)
           /\ num_employed' = n
           /\ call' = [num_employed |-> num_employed, total_consumption |-> S,
                       jobs_to_automate |-> upd.jobs_to_automate]
           /\ data' = RecordData(data, n, total_consumption', tax_revenue',
                                 material_gain', revenue')
           /\ UNCHANGED history

StepEco ==
    /\ variant = "eco"
    /\ steps < MaxSteps
    /\ \E sample \in AlphaSamples :
        LET ws1 == UpdateWorkers(workers)
            S == PreStimulusConsumption(ws1)
            upd == AIFirmUpdate(ClampAlpha(sample), num_employed, S,
                                initial_consumption)
            ws2 == AutomateFirstEmployed(ws1, upd.jobs_to_automate)
            n == RecountEmployed(ws2)
        IN  /\ Settle(ws2, S, upd, EmployedWages(ws2))
            /\ num_employed' = n
            /\ call' = [num_employed |-> num_employed, total_consumption |-> S,
                        jobs_to_automate |-> upd.jobs_to_automate]
            /\ data' = RecordData(data, n, total_consumption', tax_revenue',
                                  material_gain', revenue')
            /\ UNCHANGED history

StepChess ==
    /\ variant = "chess"
    /\ steps < MaxSteps
    /\ \E sample \in AlphaSamples :
        LET ws1 == UpdateWorkers(workers)
            S == PreStimulusConsumption(ws1)
            n == RecountEmployed(ws1)
            upd == AIFirmUpdate(ClampAlpha(sample), n, S, initial_consumption)
        IN  \E T \in ShuffledSelections(ws1, upd.jobs_to_automate) :
              LET ws2 == FireSet(ws1, T)
              IN  /\ Settle(ws2, S, upd, EmployedWages(ws2))
                  /\ call' = [num_employed |-> n, total_consumption |-> S,
                              jobs_to_automate |-> upd.jobs_to_automate]
                  /\ history' = AppendSnapshot(history,
                                    Snapshot(ws2, material_gain', tax_revenue',
                                             total_consumption'))
                  /\ UNCHANGED <<num_employed, data>>

Next == StepAiEconomy \/ StepEco \/ StepChess

Spec == Init /\ [][Next]_vars

-----------------------------------------------------------------------------
(* Vocabulary of the properties *)

\* a step() call has completed between the two states
Stepped == steps' = steps + 1

Count(ws) == Cardinality({i \in DOMAIN ws : ws[i].employed})

\* the workers whose employed flag goes from true to false in the step
Flipped == {i \in DOMAIN workers : workers[i].employed /\ ~workers'[i].employed}

\* the first k employed workers in population order
FirstK(ws, k) ==
    {i \in DOMAIN ws :
        /\ ws[i].employed
        /\ Cardinality({j \in 1 .. (i - 1) : ws[j].employed}) < k}

RECURSIVE SumRat(_, _, _)
SumRat(f, lo, hi) ==
    IF lo > hi THEN Zero
    ELSE IF lo = hi THEN f[lo]
    ELSE LET mid == (lo + hi) \div 2
         IN  RAdd(SumRat(f, lo, mid), SumRat(f, mid + 1, hi))

\* wage x BETA for the employed, 0 for the others
Derived(w, employed) == IF employed THEN RMul(FromInt(w.wage), BETA) ELSE Zero

\* sum of the consumption the workers of ws have once updated
StartConsumption(ws) ==
    SumRat([i \in DOMAIN ws |-> Derived(ws[i], ws[i].employed)], 1, Len(ws))

WageBill(ws) ==
    SumRat([i \in DOMAIN ws |-> IF ws[i].employed THEN FromInt(ws[i].wage) ELSE Zero],
           1, Len(ws))

Last(s) == s[Len(s)]

\* the employed count a snapshot of either kind of history records
RecordedEmployment(k) ==
    IF variant \in Aggregate THEN data["Employment"][k + 1]
    ELSE Cardinality({i \in DOMAIN history[k].employment : history[k].employment[i]})

RecordedConsumption ==
    IF variant \in Aggregate THEN Last(data["Consumption"])
    ELSE Last(history).consumption

-----------------------------------------------------------------------------
(* C1 *)

\* C1: in every variant a step flips exactly min(jobs_to_automate, employed at
\* the start of the step) workers from employed to unemployed, and in the
\* deterministic variants (ai_economy, eco) the flipped workers are the first
\* jobs_to_automate employed workers in population order.
C1_FlipsMinJobsEmployed ==
    [][Stepped =>
        /\ Cardinality(Flipped) = Min(call'.jobs_to_automate, Count(workers))
        /\ variant \in Aggregate =>
               Flipped = FirstK(workers, call'.jobs_to_automate)]_vars

-----------------------------------------------------------------------------
(* C2 *)

\* C2: no worker's employed flag ever goes from false to true, and the employed
\* count recorded after each step is at most the count recorded before it.
C2_NoRehire ==
    /\ [](\A k \in 1 .. steps :
            /\ k > 1 => RecordedEmployment(k) <= RecordedEmployment(k - 1)
            /\ k = 1 /\ variant \in Aggregate =>
                   RecordedEmployment(1) <= RecordedEmployment(0))
    /\ [][/\ \A i \in DOMAIN workers :
                ~workers[i].employed => ~workers'[i].employed
          /\ Count(workers') <= Count(workers)]_vars

C2_Witness ==
    /\ steps >= 2
    /\ variant = "chess"
    /\ \E i \in DOMAIN workers : ~history[1].employment[i] /\ ~workers[i].employed
    /\ RecordedEmployment(2) < RecordedEmployment(1)

-----------------------------------------------------------------------------
(* C3 *)

\* C3: material_gain starts at 0, is never negative, and after a step is at
\* least what it was before the step, whatever automation rate is drawn.
C3_ProfitMonotone ==
    /\ material_gain = Zero
    /\ [](RLe(Zero, material_gain))
    /\ [][RLe(material_gain, material_gain')]_vars

C3_Witness ==
    /\ steps >= 2
    /\ call.jobs_to_automate > 0
    /\ RLt(Zero, material_gain)

-----------------------------------------------------------------------------
(* C4 *)

\* C4: with S the sum of worker consumption at the start of the step, after the
\* step every demand firm's revenue is GAMMA x S, tax_revenue is TAU x (wages of
\* the workers still employed + sum of the firm revenues), and the recorded
\* consumption is S + 0.5 x tax_revenue.
C4_StepAccounts ==
    [][Stepped =>
        LET S == StartConsumption(workers)
        IN  /\ \A f \in DOMAIN revenue' : revenue'[f] = RMul(GAMMA, S)
            /\ tax_revenue' =
                   RMul(TAU, RAdd(WageBill(workers'),
                                  SumRat(revenue', 1, Len(revenue'))))
            /\ total_consumption' = RAdd(S, RMul(Rat(1, 2), tax_revenue'))
            /\ RecordedConsumption' = total_consumption']_vars

C4_Witness ==
    /\ steps >= 2
    /\ Count(workers) < Len(workers)
    /\ Count(workers) > 0
    /\ RLt(Zero, tax_revenue)

-----------------------------------------------------------------------------
(* C5 *)

\* C5: the fixed-rate engine started with 1000 workers of wage 100 computes
\* jobs_to_automate = 50 in its first step, leaves 950 workers employed and adds
\* exactly 2500 to material_gain.
C5_FirstStepOfThousand ==
    (variant = "ai_economy" /\ Len(workers) = 1000 /\ steps >= 1) =>
        /\ \A i \in DOMAIN workers : workers[i].wage = 100
        /\ data["Employment"][1] = 1000
        /\ data["Employment"][2] = 950
        /\ data["AI Profit"][2] = FromInt(2500)
        /\ steps = 1 =>
               /\ call.jobs_to_automate = 50
               /\ call.total_consumption = initial_consumption
               /\ Count(workers) = 950
               /\ material_gain = FromInt(2500)

C5_Witness ==
    variant = "ai_economy" /\ Len(workers) = 1000 /\ steps = 1

-----------------------------------------------------------------------------
(* C6 *)

\* C6 as stated: between step() calls every worker's consumption is wage x BETA
\* if the worker is employed and 0 if not.
C6_ConsumptionFollowsEmployment ==
    \A i \in DOMAIN workers :
        workers[i].consumption = Derived(workers[i], workers[i].employed)

\* C6 amended: between step() calls every worker's consumption is wage x BETA if
\* the worker was employed when the latest step() began (or no step has run),
\* and 0 otherwise: a worker automated in the latest step keeps wage x BETA.
C6_ConsumptionFollowsEmploymentAtStepStart ==
    /\ \A i \in DOMAIN workers :
          workers[i].employed /\ workers[i].consumption = Derived(workers[i], TRUE)
    /\ [][Stepped =>
            \A i \in DOMAIN workers :
                workers'[i].consumption = Derived(workers[i], workers[i].employed)]_vars

C6_Witness ==
    /\ steps >= 2
    /\ \E i \in DOMAIN workers :
          ~workers[i].employed /\ workers[i].consumption = Zero
    /\ \E i \in DOMAIN workers :
          ~workers[i].employed /\ RLt(Zero, workers[i].consumption)

-----------------------------------------------------------------------------
(* C7 *)

\* C7: a step appends exactly one snapshot, that of the state the step leaves,
\* at the end of the history and leaves the earlier snapshots as they were;
\* after n steps chess.py's history has n entries and each of the five data
\* series of ai_economy.py and eco.py has n + 1.
C7_HistoryAppendOnly ==
    /\ [](IF variant \in Aggregate
          THEN \A k \in DOMAIN data : Len(data[k]) = steps + 1
          ELSE Len(history) = steps)
    /\ [][Stepped =>
            IF variant \in Aggregate
            THEN /\ data'["Employment"] = Append(data["Employment"], Count(workers'))
                 /\ data'["Consumption"] =
                        Append(data["Consumption"], total_consumption')
                 /\ data'["Tax Revenue"] = Append(data["Tax Revenue"], tax_revenue')
                 /\ data'["AI Profit"] = Append(data["AI Profit"], material_gain')
                 /\ data'["Non-AI Revenue"] =
                        Append(data["Non-AI Revenue"],
                               SumRat(revenue', 1, Len(revenue')))
            ELSE history' =
                   Append(history,
                          [employment |->
                               [i \in DOMAIN workers' |-> workers'[i].employed],
                           wages |->
                               [i \in DOMAIN workers' |->
                                   IF workers'[i].employed
                                   THEN workers'[i].wage ELSE 0],
                           ai_profit |-> material_gain',
                           tax_revenue |-> tax_revenue',
                           consumption |-> total_consumption'])]_vars

C7_Witness ==
    /\ steps >= 2
    /\ variant = "chess"
    /\ history[1].employment # history[2].employment

-----------------------------------------------------------------------------
(* C8 *)

\* C8: the consumption passed to AIFirm.update is at most initial_consumption,
\* so the ratio is in [0, 1], the factor 1 - EPSILON x (1 - ratio) is in
\* [1 - EPSILON, 1] (the floor at 0 never applies), and the profit added in the
\* step is the raw profit times that factor, between (1 - EPSILON) x raw and raw.
C8_PenaltyWithinBounds ==
    [][Stepped =>
        LET S == call'.total_consumption
            ratio == RDiv(S, initial_consumption)
            factor == RSub(One, RMul(EPSILON, RSub(One, ratio)))
            raw == FromInt(call'.jobs_to_automate * AI_PROFIT_PER_JOB)
            added == RSub(material_gain', material_gain)
        IN  /\ RLt(Zero, initial_consumption)
            /\ RLe(S, initial_consumption)
            /\ RLe(Zero, ratio) /\ RLe(ratio, One)
            /\ RLe(RSub(One, EPSILON), factor) /\ RLe(factor, One)
            /\ added = RMul(raw, factor)
            /\ RLe(RMul(RSub(One, EPSILON), raw), added)
            /\ RLe(added, raw)]_vars

C8_Witness ==
    /\ steps >= 2
    /\ call.jobs_to_automate > 0
    /\ RLt(call.total_consumption, initial_consumption)

-----------------------------------------------------------------------------
(* C9 *)

\* C9: in ai_economy.py and eco.py the field num_employed is, between step()
\* calls, the number of workers whose employed flag is true, so the count a
\* step passes to AIFirm.update is the number employed before its automation.
C9_CachedCountIsTrueCount ==
    /\ [](variant \in Aggregate => num_employed = Count(workers))
    /\ [][(Stepped /\ variant \in Aggregate) =>
            call'.num_employed = Count(workers)]_vars

C9_Witness ==
    /\ variant \in Aggregate
    /\ steps >= 2
    /\ num_employed < Len(workers)
    /\ call.num_employed < Len(workers)

-----------------------------------------------------------------------------
(* C10 *)

\* C10: at the fixed rate 0.05 the employed count never reaches 0; a step that
\* starts with fewer than 20 employed workers has jobs_to_automate = 0 and
\* changes no worker's employment, so the count stays as it is from then on.
C10_FullAutomationUnreachable ==
    /\ [](variant = "ai_economy" => Count(workers) > 0)
    /\ [][(Stepped /\ variant = "ai_economy" /\ Count(workers) < 20) =>
            /\ call'.jobs_to_automate = 0
            /\ Count(workers') = Count(workers)
            /\ \A i \in DOMAIN workers :
                  workers'[i].employed = workers[i].employed]_vars

C10_Witness ==
    /\ variant = "ai_economy"
    /\ Len(workers) >= 20
    /\ Count(workers) < 20
    /\ steps >= 2
    /\ call.jobs_to_automate = 0

====
